---- MODULE Spec2Model ----
(***************************************************************************)
(* PgDbToolkit (src/pgdbtoolkit/sync_db.py): the query builder, the        *)
(* identifier and value sanitizers, and the record operations that hand    *)
(* the built statement to the database driver.                             *)
(*                                                                         *)
(* Text is modelled as a sequence of one-character strings, so that        *)
(* quoting, escaping and placeholder counting are computed on characters.  *)
(***************************************************************************)
EXTENDS Integers, Sequences, FiniteSets, TLC

VARIABLES
    idArgs,         \* sanitize_identifier: the raw identifiers of two calls
    idResults,      \* sanitize_identifier: what the calls made so far returned
    value,          \* sanitize_value: the argument of the call
    svResult,       \* sanitize_value: outcome of the call
    bqArgs,         \* build_query: the arguments of the call
    bqResult,       \* build_query: outcome of the call
    op,             \* toolkit: the last record operation called, with its arguments
    outcome,        \* toolkit: how the last record operation ended
    trace,          \* toolkit: the driver events of the last record operation, in order
    openConns,      \* toolkit: number of driver connections currently open
    db_config,      \* toolkit: self.db_config, of which dbname is modelled
    environ,        \* toolkit: os.environ, of which DB_DATABASE is modelled
    lastCreated     \* history: the database of the last CREATE DATABASE the server accepted

vars == <<idArgs, idResults, value, svResult, bqArgs, bqResult,
          op, outcome, trace, openConns, db_config, environ, lastCreated>>

idVars == <<idArgs, idResults>>
svVars == <<value, svResult>>
bqVars == <<bqArgs, bqResult>>
cfgVars == <<db_config, environ, lastCreated>>
tkVars == <<op, outcome, trace, openConns, cfgVars>>

-----------------------------------------------------------------------------
(* Bounds of the model *)

\* longest raw identifier given to sanitize_identifier on its own
MaxIdLen == 3
\* most entries of a data mapping or a condition mapping
MaxKeys == 2
\* most elements of a list, tuple or dict value
MaxElems == 2

-----------------------------------------------------------------------------
(* Text *)

\* the double-quote character
DQ == "\""

\* characters raw identifiers are drawn from: two letters and the quoting
\* delimiter
IdChars == {"a", "b", DQ}

RECURSIVE StringsUpTo(_, _)
\* all texts over chars of length at most n
StringsUpTo(chars, n) ==
    IF n = 0 THEN {<<>>}
    ELSE LET shorter == StringsUpTo(chars, n - 1)
         IN  shorter \cup {Append(s, c) : s \in shorter, c \in chars}

RECURSIVE Join(_, _)
\* sep.join(parts)
Join(sep, parts) ==
    IF Len(parts) = 0 THEN <<>>
    ELSE IF Len(parts) = 1 THEN parts[1]
    ELSE parts[1] \o sep \o Join(sep, Tail(parts))

RECURSIVE Replace(_, _, _)
\* s.replace(old, new) for a one-character old
Replace(s, old, new) ==
    IF Len(s) = 0 THEN <<>>
    ELSE (IF Head(s) = old THEN new ELSE <<Head(s)>>) \o Replace(Tail(s), old, new)

-----------------------------------------------------------------------------
(* sanitize_identifier *)

\* a plausible slip: the identifier is wrapped but its quotes are not doubled
sanitize_identifier_unescaped(raw) == <<DQ>> \o raw \o <<DQ>>

\* a plausible slip: embedded quotes are removed instead of doubled
sanitize_identifier_stripped(raw) == <<DQ>> \o Replace(raw, DQ, <<>>) \o <<DQ>>

\* '"{}"'.format(identifier.replace('"', '""'))
sanitize_identifier(raw) == <<DQ>> \o Replace(raw, DQ, <<DQ, DQ>>) \o <<DQ>>

Identifiers == StringsUpTo(IdChars, MaxIdLen)

\* no call of sanitize_identifier is under way
IdIdle ==
    /\ idArgs = <<<<>>, <<>>>>
    /\ idResults = <<>>

\* two raw identifiers are given, and no call has been made
IdInit ==
    /\ idArgs \in Identifiers \X Identifiers
    /\ idResults = <<>>

\* the next call of sanitize_identifier, on the next of the two identifiers
SanitizeIdentifier ==
    /\ Len(idResults) < Len(idArgs)
    /\ idResults' = Append(idResults, sanitize_identifier(idArgs[Len(idResults) + 1]))
    /\ UNCHANGED <<idArgs, svVars, bqVars, tkVars>>

-----------------------------------------------------------------------------
(* Values *)

\* A Python value: t is its type; n its number (int, bool as 0/1, float in
\* tenths); txt its text (str) or its str() text (an object of another
\* type); elems its elements (list, tuple, dict), each with the dict key k
\* (empty for list and tuple elements).  Elements are scalars or objects of
\* a type json has no encoding for; the txt of such an object as an element
\* is its repr() text, which is what str() of the tuple holding it shows.
MkValue(t, n, txt, elems) == [t |-> t, n |-> n, txt |-> txt, elems |-> elems]
MkElem(k, t, n, txt) == [k |-> k, t |-> t, n |-> n, txt |-> txt]

IntV(n) == MkValue("int", n, <<>>, <<>>)
FloatV(n) == MkValue("float", n, <<>>, <<>>)
BoolV(b) == MkValue("bool", IF b THEN 1 ELSE 0, <<>>, <<>>)
NoneV == MkValue("none", 0, <<>>, <<>>)
StrV(s) == MkValue("str", 0, s, <<>>)
OtherV(s) == MkValue("other", 0, s, <<>>)
ListV(es) == MkValue("list", 0, <<>>, es)
TupleV(es) == MkValue("tuple", 0, <<>>, es)
DictV(es) == MkValue("dict", 0, <<>>, es)

Digits == <<"0", "1", "2", "3", "4", "5", "6", "7", "8", "9">>

BS == "\\"
SQ == "'"

InText(c, s) == \E i \in 1..Len(s) : s[i] = c

RECURSIVE NatText(_)
NatText(n) ==
    IF n < 10 THEN <<Digits[n + 1]>>
    ELSE NatText(n \div 10) \o <<Digits[(n % 10) + 1]>>

\* str(n) and json.dumps(n) of an int
IntText(n) == IF n < 0 THEN <<"-">> \o NatText(0 - n) ELSE NatText(n)

\* repr and json.dumps of the float of n tenths (float.__repr__; magnitudes
\* from 0.1 up to those written without an exponent)
FloatText(n) ==
    LET a == IF n < 0 THEN 0 - n ELSE n
    IN  (IF n < 0 THEN <<"-">> ELSE <<>>)
            \o NatText(a \div 10) \o <<".", Digits[(a % 10) + 1]>>

\* The characters of the texts, by code point: the printable ASCII ones
\* (32 to 126) but the grave accent 96, those of Latin-1 from 161 to 255 but
\* the soft hyphen 173, tab, newline, form feed and carriage return, and the
\* euro sign.
AsciiSigns ==
    <<" ", "!", "\"", "#", "$", "%", "&", "'", "(", ")", "*", "+", ",", "-", ".", "/", "0",
      "1", "2", "3", "4", "5", "6", "7", "8", "9", ":", ";", "<", "=", ">", "?", "@", "A",
      "B", "C", "D", "E", "F", "G", "H", "I", "J", "K", "L", "M", "N", "O", "P", "Q", "R",
      "S", "T", "U", "V", "W", "X", "Y", "Z", "[", "\\", "]", "^", "_">>
AsciiLetters ==
    <<"a", "b", "c",
      "d", "e", "f", "g", "h", "i", "j", "k", "l", "m", "n", "o", "p", "q", "r", "s", "t",
      "u", "v", "w", "x", "y", "z", "{", "|", "}", "~">>
Latin1Low ==
    <<"¡", "¢", "£", "¤", "¥", "¦", "§", "¨", "©", "ª", "«", "¬">>
Latin1High ==
    <<"®", "¯", "°", "±", "²", "³", "´", "µ", "¶", "·", "¸", "¹", "º", "»", "¼", "½", "¾",
      "¿", "À", "Á", "Â", "Ã", "Ä", "Å", "Æ", "Ç", "È", "É", "Ê", "Ë", "Ì", "Í", "Î", "Ï",
      "Ð", "Ñ", "Ò", "Ó", "Ô", "Õ", "Ö", "×", "Ø", "Ù", "Ú", "Û", "Ü", "Ý", "Þ", "ß", "à",
      "á", "â", "ã", "ä", "å", "æ", "ç", "è", "é", "ê", "ë", "ì", "í", "î", "ï", "ð", "ñ",
      "ò", "ó", "ô", "õ", "ö", "÷", "ø", "ù", "ú", "û", "ü", "ý", "þ", "ÿ">>

IndexIn(c, chars) == CHOOSE i \in 1..Len(chars) : chars[i] = c

\* ord(c)
CodePoint(c) ==
    CASE c = "\t" -> 9
      [] c = "\n" -> 10
      [] c = "\f" -> 12
      [] c = "\r" -> 13
      [] c = "€" -> 8364
      [] InText(c, AsciiSigns) -> 31 + IndexIn(c, AsciiSigns)
      [] InText(c, AsciiLetters) -> 96 + IndexIn(c, AsciiLetters)
      [] InText(c, Latin1Low) -> 160 + IndexIn(c, Latin1Low)
      [] InText(c, Latin1High) -> 173 + IndexIn(c, Latin1High)

HexDigits == <<"0", "1", "2", "3", "4", "5", "6", "7", "8", "9", "a", "b", "c", "d", "e", "f">>

RECURSIVE Hex(_, _)
\* n in lower-case hexadecimal, w digits wide
Hex(n, w) == IF w = 0 THEN <<>> ELSE Hex(n \div 16, w - 1) \o <<HexDigits[(n % 16) + 1]>>

SeqMap(F(_), s) == [i \in 1..Len(s) |-> F(s[i])]

\* the concatenation of the texts of a sequence
Flatten(parts) == Join(<<>>, parts)

\* a character inside the JSON text of a str (ensure_ascii is on): quote and
\* backslash escaped, a control character as its short escape or \u00XX, a
\* character above 127 as \uXXXX
JsonChar(c) ==
    CASE c = DQ -> <<BS, DQ>>
      [] c = BS -> <<BS, BS>>
      [] c = "\n" -> <<BS, "n">>
      [] c = "\r" -> <<BS, "r">>
      [] c = "\t" -> <<BS, "t">>
      [] c = "\f" -> <<BS, "f">>
      [] OTHER -> IF CodePoint(c) < 32 \/ CodePoint(c) > 127
                  THEN <<BS, "u">> \o Hex(CodePoint(c), 4)
                  ELSE <<c>>

\* json.dumps of a str: wrapped in double quotes, its characters escaped
JsonString(s) == <<DQ>> \o Flatten(SeqMap(JsonChar, s)) \o <<DQ>>

\* a character inside the repr of a str in the quote q: backslash and q
\* escaped, newline, carriage return and tab as their short escapes, another
\* control character as \xXX; printable characters above 127 as they are
ReprChar(c, q) ==
    CASE c = BS -> <<BS, BS>>
      [] c = q -> <<BS, q>>
      [] c = "\n" -> <<BS, "n">>
      [] c = "\r" -> <<BS, "r">>
      [] c = "\t" -> <<BS, "t">>
      [] OTHER -> IF CodePoint(c) < 32 THEN <<BS, "x">> \o Hex(CodePoint(c), 2)
                  ELSE <<c>>

\* repr of a str: single quotes unless it holds a single quote and no double quote
PyReprStr(s) ==
    LET q == IF InText(SQ, s) /\ ~InText(DQ, s) THEN DQ ELSE SQ
    IN  <<q>> \o Flatten([i \in 1..Len(s) |-> ReprChar(s[i], q)]) \o <<q>>

\* whether json.dumps has an encoding for a scalar of this type
JsonEncodable(t) == t \in {"int", "float", "str", "bool", "none"}

\* json.dumps of an element
JsonElem(e) ==
    CASE e.t = "int" -> IntText(e.n)
      [] e.t = "float" -> FloatText(e.n)
      [] e.t = "str" -> JsonString(e.txt)
      [] e.t = "bool" -> IF e.n = 1 THEN <<"t", "r", "u", "e">>
                         ELSE <<"f", "a", "l", "s", "e">>
      [] e.t = "none" -> <<"n", "u", "l", "l">>
      [] OTHER -> <<>>

\* repr of an element
ReprElem(e) ==
    CASE e.t = "int" -> IntText(e.n)
      [] e.t = "float" -> FloatText(e.n)
      [] e.t = "str" -> PyReprStr(e.txt)
      [] e.t = "bool" -> IF e.n = 1 THEN <<"T", "r", "u", "e">>
                         ELSE <<"F", "a", "l", "s", "e">>
      [] e.t = "none" -> <<"N", "o", "n", "e">>
      [] OTHER -> e.txt

JsonItem(e) == JsonString(e.k) \o <<":", " ">> \o JsonElem(e)

\* json.dumps of a list or dict whose elements all have an encoding
json_dumps(v) ==
    IF v.t = "dict"
    THEN <<"{">> \o Join(<<",", " ">>, SeqMap(JsonItem, v.elems)) \o <<"}">>
    ELSE <<"[">> \o Join(<<",", " ">>, SeqMap(JsonElem, v.elems)) \o <<"]">>

\* whether json.dumps raises TypeError on a list or dict
json_raises(v) == \E i \in 1..Len(v.elems) : ~JsonEncodable(v.elems[i].t)

\* str(v) of a value that is neither list, dict nor a driver primitive
py_str(v) ==
    IF v.t = "tuple"
    THEN IF Len(v.elems) = 1
         THEN <<"(">> \o ReprElem(v.elems[1]) \o <<",", ")">>
         ELSE <<"(">> \o Join(<<",", " ">>, SeqMap(ReprElem, v.elems)) \o <<")">>
    ELSE v.txt

-----------------------------------------------------------------------------
(* sanitize_value *)

\* the outcome of a call: nothing yet, a returned value, or a raised exception
NoCall == [state |-> "none", exc |-> "", val |-> NoneV]
Returned(v) == [state |-> "returned", exc |-> "", val |-> v]
Raised(e) == [state |-> "raised", exc |-> e, val |-> NoneV]

\* lines 577-582: list and dict go through json.dumps (which raises TypeError
\* on an element it cannot encode), the driver's primitives are returned as
\* they are, anything else goes through str
sanitize_value(v) ==
    IF v.t \in {"list", "dict"}
    THEN IF json_raises(v) THEN Raised("TypeError")
         ELSE Returned(StrV(json_dumps(v)))
    ELSE IF v.t \in {"int", "float", "str", "bool", "none"}
    THEN Returned(v)
    ELSE Returned(StrV(py_str(v)))

\* texts used as str values and str elements
SampleTexts == {<<"x">>, <<DQ>>, <<"\n", "é">>}
\* keys of dict values
DictKeys == {<<"x">>, <<"y">>, <<"z">>}
\* str() texts of objects of other types: a set and a Decimal
OtherTexts == {<<"{", "1", "}">>, <<"1", ".", "5">>}
\* repr() texts of objects of other types: the set and the Decimal
OtherReprs ==
    {<<"{", "1", "}">>,
     <<"D", "e", "c", "i", "m", "a", "l", "(", "'", "1", ".", "5", "'", ")">>}
SampleInts == {1, 2, 30}

\* scalars and objects as they appear inside a list, tuple or dict
ElemsWithKey(k) ==
    {MkElem(k, "int", n, <<>>) : n \in SampleInts}
    \cup {MkElem(k, "str", 0, s) : s \in SampleTexts}
    \cup {MkElem(k, "bool", 1, <<>>), MkElem(k, "none", 0, <<>>), MkElem(k, "float", 15, <<>>)}
    \cup {MkElem(k, "other", 0, s) : s \in OtherReprs}

RECURSIVE SeqsUpTo(_, _)
\* all sequences over S of length at most n
SeqsUpTo(S, n) ==
    IF n = 0 THEN {<<>>}
    ELSE LET shorter == SeqsUpTo(S, n - 1)
         IN  shorter \cup {Append(s, x) : s \in shorter, x \in S}

\* a dict holds each key once
DistinctKeys(es) == \A i, j \in 1..Len(es) : es[i].k = es[j].k => i = j

ElemSeqs == SeqsUpTo(ElemsWithKey(<<>>), MaxElems)
ItemSeqs ==
    {es \in SeqsUpTo(UNION {ElemsWithKey(k) : k \in DictKeys}, MaxElems) :
        DistinctKeys(es)}

Values ==
    {IntV(n) : n \in SampleInts}
    \cup {FloatV(15), BoolV(TRUE), BoolV(FALSE), NoneV}
    \cup {StrV(s) : s \in SampleTexts \cup {<<>>}}
    \cup {OtherV(s) : s \in OtherTexts}
    \cup {ListV(es) : es \in ElemSeqs}
    \cup {TupleV(es) : es \in ElemSeqs}
    \cup {DictV(es) : es \in ItemSeqs}

\* no call of sanitize_value is under way
SvIdle ==
    /\ value = NoneV
    /\ svResult = NoCall

\* a value is given, and the call has not been made
SvInit ==
    /\ value \in Values
    /\ svResult = NoCall

\* the call of sanitize_value
SanitizeValue ==
    /\ svResult.state = "none"
    /\ svResult' = sanitize_value(value)
    /\ UNCHANGED <<value, idVars, bqVars, tkVars>>

-----------------------------------------------------------------------------
(* build_query *)

\* A mapping argument: absent (None) or a dict, whose items are kept in
\* insertion order as Python's dict keeps them; each key appears once.
NoMapping == [present |-> FALSE, items |-> <<>>]
Mapping(items) == [present |-> TRUE, items |-> items]
Item(k, v) == [k |-> k, v |-> v]

\* bool(m) of a mapping argument: None and {} are falsy
Truthy(m) == m.present /\ Len(m.items) > 0

\* list(m.keys()) and list(m.values())
Keys(m) == [i \in 1..Len(m.items) |-> m.items[i].k]
Vals(m) == [i \in 1..Len(m.items) |-> m.items[i].v]

KSelect == <<"S", "E", "L", "E", "C", "T">>
KInsert == <<"I", "N", "S", "E", "R", "T">>
KUpdate == <<"U", "P", "D", "A", "T", "E">>
KDelete == <<"D", "E", "L", "E", "T", "E">>

\* the driver's positional placeholder
Placeholder == <<"%", "s">>

\* the outcome of build_query: nothing yet, (query, params) returned, or
\* ValueError raised with a message
BqNoCall == [state |-> "none", exc |-> "", msg |-> <<>>, query |-> <<>>, params |-> <<>>]
BqReturned(q, ps) ==
    [state |-> "returned", exc |-> "", msg |-> <<>>, query |-> q, params |-> ps]
BqRaised(e, m) ==
    [state |-> "raised", exc |-> e, msg |-> m, query |-> <<>>, params |-> <<>>]

\* "{}= %s".format(self.sanitize_identifier(k))
EqTerm(k) == sanitize_identifier(k) \o <<"=", " ">> \o Placeholder

\* a plausible slip: the conditions are joined as a SET list is
ConditionStrCommas(conditions) == Join(<<",", " ">>, SeqMap(EqTerm, Keys(conditions)))

\* ' AND '.join(["{}= %s".format(self.sanitize_identifier(k)) for k in conditions.keys()])
ConditionStr(conditions) == Join(<<" ", "A", "N", "D", " ">>, SeqMap(EqTerm, Keys(conditions)))

\* ', '.join(["{}= %s".format(self.sanitize_identifier(k)) for k in data.keys()])
SetStr(data) == Join(<<",", " ">>, SeqMap(EqTerm, Keys(data)))

\* ', '.join([self.sanitize_identifier(col) for col in data.keys()])
ColumnsStr(data) == Join(<<",", " ">>, SeqMap(sanitize_identifier, Keys(data)))

\* ', '.join(['%s'] * len(data))
PlaceholdersStr(data) ==
    Join(<<",", " ">>, [i \in 1..Len(data.items) |-> Placeholder])

\* lines 521-526
BuildSelect(table_name, conditions) ==
    IF Truthy(conditions)
    THEN BqReturned(<<"S", "E", "L", "E", "C", "T", " ", "*", " ", "F", "R", "O", "M", " ">> \o table_name \o <<" ", "W", "H", "E", "R", "E", " ">> \o ConditionStr(conditions),
                    Vals(conditions))
    ELSE BqReturned(<<"S", "E", "L", "E", "C", "T", " ", "*", " ", "F", "R", "O", "M", " ">> \o table_name, <<>>)

\* lines 527-533
BuildInsert(table_name, data) ==
    IF ~Truthy(data)
    THEN BqRaised("ValueError", <<"I", "N", "S", "E", "R", "T", " ", "q", "u", "e", "r", "i", "e", "s", " ", "r", "e", "q", "u", "i", "r", "e", " ", "d", "a", "t", "a", ".">>)
    ELSE BqReturned(<<"I", "N", "S", "E", "R", "T", " ", "I", "N", "T", "O", " ">> \o table_name \o <<" ", "(">> \o ColumnsStr(data)
                        \o <<")", " ", "V", "A", "L", "U", "E", "S", " ", "(">> \o PlaceholdersStr(data) \o <<")">>,
                    Vals(data))

\* a plausible slip: the condition values are bound before the data values
BuildUpdateConditionsFirst(table_name, data, conditions) ==
    IF ~Truthy(data)
    THEN BqRaised("ValueError", <<"U", "P", "D", "A", "T", "E", " ", "q", "u", "e", "r", "i", "e", "s", " ", "r", "e", "q", "u", "i", "r", "e", " ", "d", "a", "t", "a", ".">>)
    ELSE IF Truthy(conditions)
    THEN BqReturned(<<"U", "P", "D", "A", "T", "E", " ">> \o table_name \o <<" ", "S", "E", "T", " ">> \o SetStr(data)
                        \o <<" ", "W", "H", "E", "R", "E", " ">> \o ConditionStr(conditions),
                    Vals(conditions) \o Vals(data))
    ELSE BqReturned(<<"U", "P", "D", "A", "T", "E", " ">> \o table_name \o <<" ", "S", "E", "T", " ">> \o SetStr(data), Vals(data))

\* lines 534-543
BuildUpdate(table_name, data, conditions) ==
    IF ~Truthy(data)
    THEN BqRaised("ValueError", <<"U", "P", "D", "A", "T", "E", " ", "q", "u", "e", "r", "i", "e", "s", " ", "r", "e", "q", "u", "i", "r", "e", " ", "d", "a", "t", "a", ".">>)
    ELSE IF Truthy(conditions)
    THEN BqReturned(<<"U", "P", "D", "A", "T", "E", " ">> \o table_name \o <<" ", "S", "E", "T", " ">> \o SetStr(data)
                        \o <<" ", "W", "H", "E", "R", "E", " ">> \o ConditionStr(conditions),
                    Vals(data) \o Vals(conditions))
    ELSE BqReturned(<<"U", "P", "D", "A", "T", "E", " ">> \o table_name \o <<" ", "S", "E", "T", " ">> \o SetStr(data), Vals(data))

\* a plausible slip: DELETE treats its conditions as SELECT does
BuildDeleteUnconditioned(table_name, conditions) ==
    IF Truthy(conditions)
    THEN BqReturned(<<"D", "E", "L", "E", "T", "E", " ", "F", "R", "O", "M", " ">> \o table_name \o <<" ", "W", "H", "E", "R", "E", " ">> \o ConditionStr(conditions),
                    Vals(conditions))
    ELSE BqReturned(<<"D", "E", "L", "E", "T", "E", " ", "F", "R", "O", "M", " ">> \o table_name, <<>>)

\* lines 544-549
BuildDelete(table_name, conditions) ==
    IF ~Truthy(conditions)
    THEN BqRaised("ValueError", <<"D", "E", "L", "E", "T", "E", " ", "q", "u", "e", "r", "i", "e", "s", " ", "r", "e", "q", "u", "i", "r", "e", " ", "a", "t", " ", "l", "e", "a", "s", "t", " ", "o", "n", "e", " ", "c", "o", "n", "d", "i", "t", "i", "o", "n", ".">>)
    ELSE BqReturned(<<"D", "E", "L", "E", "T", "E", " ", "F", "R", "O", "M", " ">> \o table_name \o <<" ", "W", "H", "E", "R", "E", " ">> \o ConditionStr(conditions),
                    Vals(conditions))

\* a plausible slip: the message does not name the query type
BuildUnrecognizedUnnamed(query_type) ==
    BqRaised("ValueError", <<"Q", "u", "e", "r", "y", " ", "t", "y", "p", "e", " ", "n", "o", "t", " ", "r", "e", "c", "o", "g", "n", "i", "z", "e", "d", ".">>)

\* lines 550-551
BuildUnrecognized(query_type) ==
    BqRaised("ValueError", <<"Q", "u", "e", "r", "y", " ", "t", "y", "p", "e", " ", "'">> \o query_type \o <<"'", " ", "n", "o", "t", " ", "r", "e", "c", "o", "g", "n", "i", "z", "e", "d", ".">>)

\* build_query(table_name, data, conditions, query_type)
build_query(table, data, conditions, query_type) ==
    LET table_name == sanitize_identifier(table)
    IN  IF query_type = KSelect THEN BuildSelect(table_name, conditions)
        ELSE IF query_type = KInsert THEN BuildInsert(table_name, data)
        ELSE IF query_type = KUpdate THEN BuildUpdate(table_name, data, conditions)
        ELSE IF query_type = KDelete THEN BuildDelete(table_name, conditions)
        ELSE BuildUnrecognized(query_type)

\* table names, column names and values the builder is called with: plain
\* names, a name holding the quoting delimiter, names holding the text of
\* the driver's placeholder, scalar values and composite values
Tables == {<<"u", "s", "e", "r", "s">>, <<"t", "\"", "x">>, <<"%", "s">>}
DataColumns == {<<"a">>, <<"b">>, <<"%", "s">>}
CondColumns == {<<"c">>, <<"i", "d">>, <<"a", "\"", "b">>}
DataValues == {IntV(1), IntV(2), ListV(<<MkElem(<<>>, "int", 1, <<>>), MkElem(<<>>, "int", 2, <<>>)>>)}
CondValues == {IntV(3), IntV(5)}
QueryTypes == {KSelect, KInsert, KUpdate, KDelete, <<"P", "A", "T", "C", "H">>, <<"s", "e", "l", "e", "c", "t">>}

DistinctItemKeys(items) ==
    \A i, j \in 1..Len(items) : items[i].k = items[j].k => i = j

\* None, {} and every dict of at most MaxKeys entries
Mappings(columns, values) ==
    {NoMapping}
    \cup {Mapping(items) :
            items \in {is \in SeqsUpTo({Item(k, v) : k \in columns, v \in values}, MaxKeys) :
                         DistinctItemKeys(is)}}

DataMappings == Mappings(DataColumns, DataValues)
CondMappings == Mappings(CondColumns, CondValues)

\* no call of build_query is under way
BqIdle ==
    /\ bqArgs = [table |-> <<>>, data |-> NoMapping, conditions |-> NoMapping,
                 query_type |-> KSelect]
    /\ bqResult = BqNoCall

\* the arguments are given, and the call has not been made
BqInit ==
    /\ bqArgs \in [table : Tables, data : DataMappings, conditions : CondMappings,
                    query_type : QueryTypes]
    /\ bqResult = BqNoCall

\* the call of build_query
BuildQuery ==
    /\ bqResult.state = "none"
    /\ bqResult' = build_query(bqArgs.table, bqArgs.data, bqArgs.conditions,
                               bqArgs.query_type)
    /\ UNCHANGED <<bqArgs, idVars, svVars, tkVars>>

-----------------------------------------------------------------------------
(* The record operations and the driver *)

\* how an operation ended: not called yet, returned, or raised exc
OpNoCall == [state |-> "none", exc |-> ""]
OpReturned == [state |-> "returned", exc |-> ""]
OpRaised(e) == [state |-> "raised", exc |-> e]

\* A driver event of an operation: "connect" (psycopg.connect returned a
\* connection), "connect_failed" (it raised), "execute", "commit", "fetchall"
\* "autocommit" (conn.autocommit = True) and "close", each recorded when the
\* call is entered.  For "execute", isText tells whether the
\* first argument was a statement text (query) or the (query, qparams) pair
\* that build_query returns, and params is the second argument.
Event(ev) ==
    [ev |-> ev, isText |-> TRUE, query |-> <<>>, qparams |-> <<>>, params |-> <<>>]
ExecuteText(q, ps) ==
    [ev |-> "execute", isText |-> TRUE, query |-> q, qparams |-> <<>>, params |-> ps]
ExecutePair(q, qps, ps) ==
    [ev |-> "execute", isText |-> FALSE, query |-> q, qparams |-> qps, params |-> ps]

\* what the driver does in one operation: whether psycopg.connect, cur.execute
\* and the step after it (conn.commit or cur.fetchall) succeed or raise psycopg.Error
DriverChoices == [connect : BOOLEAN, execute : BOOLEAN, finish : BOOLEAN]

Run(tr, out) == [trace |-> tr, outcome |-> out]

\* db_connection without its try/finally: conn.close() is reached only when
\* the body of the with statement ends normally
db_connection_unguarded(drv, body) ==
    IF ~drv.connect THEN Run(<<Event("connect_failed")>>, OpRaised("psycopg.Error"))
    ELSE IF body.outcome.state = "raised"
    THEN Run(<<Event("connect")>> \o body.trace, body.outcome)
    ELSE Run(<<Event("connect")>> \o body.trace \o <<Event("close")>>, body.outcome)

\* db_connection, lines 13-28, around the body of a with statement (body is
\* what the body does once it has the connection).  psycopg.connect runs
\* before the try; once it has returned, the finally closes the connection on
\* every way out of the body, and an exception of the body goes on to the caller.
db_connection(drv, body) ==
    IF ~drv.connect THEN Run(<<Event("connect_failed")>>, OpRaised("psycopg.Error"))
    ELSE Run(<<Event("connect")>> \o body.trace \o <<Event("close")>>, body.outcome)

\* the shared body without its second call: the cursor is left after
\* cur.execute, nothing is committed or fetched
ExecuteOnly(call, after, drv) ==
    IF ~call.isText THEN Run(<<call>>, OpRaised("TypeError"))
    ELSE IF ~drv.execute THEN Run(<<call>>, OpRaised("psycopg.Error"))
    ELSE Run(<<call>>, OpReturned)

\* the body every record and table operation shares:
\*     with conn.cursor() as cur:
\*         cur.execute(<call>)
\*         conn.commit()  or  cur.fetchall()
\* The driver raises TypeError when the statement it is given is not text.
ExecuteThen(call, after, drv) ==
    IF ~call.isText THEN Run(<<call>>, OpRaised("TypeError"))
    ELSE IF ~drv.execute THEN Run(<<call>>, OpRaised("psycopg.Error"))
    ELSE IF ~drv.finish THEN Run(<<call, Event(after)>>, OpRaised("psycopg.Error"))
    ELSE Run(<<call, Event(after)>>, OpReturned)

\*     with db_connection(self.db_config) as conn:
\*         <the body above>
RunStatement(call, after, drv) == db_connection(drv, ExecuteThen(call, after, drv))

\* {k: self.sanitize_value(v) for k, v in record.items()}, line 394
SanitizedRecord(record) ==
    Mapping([i \in 1..Len(record.items) |->
                Item(record.items[i].k, sanitize_value(record.items[i].v).val)])

\* whether building the sanitized record raises (json.dumps on some value)
SanitizeRaises(record) ==
    \E i \in 1..Len(record.items) : sanitize_value(record.items[i].v).state = "raised"

\* lines 395-397: the statement insert_record builds itself
InsertStatement(table_name, sanitized_record) ==
    <<"I", "N", "S", "E", "R", "T", " ", "I", "N", "T", "O", " ">> \o sanitize_identifier(table_name)
        \o <<" ", "(">> \o ColumnsStr(sanitized_record)
        \o <<")", " ", "V", "A", "L", "U", "E", "S", " ", "(">> \o PlaceholdersStr(sanitized_record) \o <<")">>

\* insert_record, lines 383-407: record.items() raises AttributeError on None
insert_record(table_name, record, drv) ==
    IF ~record.present THEN Run(<<>>, OpRaised("AttributeError"))
    ELSE IF SanitizeRaises(record) THEN Run(<<>>, OpRaised("TypeError"))
    ELSE LET sanitized_record == SanitizedRecord(record)
         IN  RunStatement(ExecuteText(InsertStatement(table_name, sanitized_record),
                                      Vals(sanitized_record)),
                          "commit", drv)

\* fetch_records, lines 409-432
fetch_records(table_name, conditions, drv) ==
    LET built == build_query(table_name, NoMapping, conditions, KSelect)
    IN  IF built.state = "raised" THEN Run(<<>>, OpRaised(built.exc))
        ELSE RunStatement(ExecuteText(built.query, built.params), "fetchall", drv)

\* update_record, lines 435-455: query is the pair build_query returned; the
\* second argument is built from record and conditions, and
\* conditions.values() raises AttributeError on None, inside the connection
\* scope and before cur.execute is entered
update_record(table_name, record, conditions, drv) ==
    LET built == build_query(table_name, record, conditions, KUpdate)
    IN  IF built.state = "raised" THEN Run(<<>>, OpRaised(built.exc))
        ELSE IF ~conditions.present
        THEN db_connection(drv, Run(<<>>, OpRaised("AttributeError")))
        ELSE RunStatement(ExecutePair(built.query, built.params,
                                      Vals(record) \o Vals(conditions)),
                          "commit", drv)

\* delete_record, lines 457-476: query is the pair build_query returned
delete_record(table_name, conditions, drv) ==
    LET built == build_query(table_name, NoMapping, conditions, KDelete)
    IN  IF built.state = "raised" THEN Run(<<>>, OpRaised(built.exc))
        ELSE RunStatement(ExecutePair(built.query, built.params, Vals(conditions)),
                          "commit", drv)

\* what the server does with CREATE DATABASE: it accepts it, reports
\* psycopg.errors.DuplicateDatabase, or reports another psycopg.Error
CreateChoices == [connect : BOOLEAN, execute : {"ok", "DuplicateDatabase", "Error"}]

\* line 53
CreateDatabaseQuery(database_name) == <<"C", "R", "E", "A", "T", "E", " ", "D", "A", "T", "A", "B", "A", "S", "E", " ">> \o database_name

\* lines 54-58: the with statement of create_database
CreateRun(database_name, drv) ==
    LET call == ExecuteText(CreateDatabaseQuery(database_name), <<>>)
    IN  db_connection(drv,
            IF drv.execute = "ok"
            THEN Run(<<Event("autocommit"), call>>, OpReturned)
            ELSE Run(<<Event("autocommit"), call>>, OpRaised(drv.execute)))

\* create_database with lines 61-62 in a finally: the configuration is set
\* however the statement ended
create_database_always(database_name, dbname, DB_DATABASE, drv) ==
    LET run == CreateRun(database_name, drv)
    IN  IF run.outcome.state = "returned" \/ run.outcome.exc = "DuplicateDatabase"
        THEN [trace |-> run.trace, outcome |-> OpReturned,
              dbname |-> database_name, DB_DATABASE |-> database_name]
        ELSE [trace |-> run.trace, outcome |-> OpRaised("psycopg.Error"),
              dbname |-> database_name, DB_DATABASE |-> database_name]

\* create_database, lines 40-70; dbname and DB_DATABASE are
\* db_config['dbname'] and os.environ['DB_DATABASE'] when the call starts,
\* and those of the result are what the call leaves there: lines 61-62 set
\* both, and are reached only when the with statement ended normally.
\* DuplicateDatabase is caught and the call returns (lines 65-67); every
\* other psycopg.Error, a failed connection included, is raised again
\* (lines 68-70); both leave the two as they were.
create_database(database_name, dbname, DB_DATABASE, drv) ==
    LET run == CreateRun(database_name, drv)
    IN  IF run.outcome.state = "returned"
        THEN [trace |-> run.trace, outcome |-> OpReturned,
              dbname |-> database_name, DB_DATABASE |-> database_name]
        ELSE IF run.outcome.exc = "DuplicateDatabase"
        THEN [trace |-> run.trace, outcome |-> OpReturned,
              dbname |-> dbname, DB_DATABASE |-> DB_DATABASE]
        ELSE [trace |-> run.trace, outcome |-> OpRaised("psycopg.Error"),
              dbname |-> dbname, DB_DATABASE |-> DB_DATABASE]

\* lines 82-86 and 88
TerminateConnectionsQuery(database_name) ==
    <<"\n", " ", " ", " ", " ", " ", " ", " ", " ", "S", "E", "L", "E", "C", "T", " ", "p",
      "g", "_", "t", "e", "r", "m", "i", "n", "a", "t", "e", "_", "b", "a", "c", "k", "e", "n",
      "d", "(", "p", "i", "d", ")", "\n", " ", " ", " ", " ", " ", " ", " ", " ", "F", "R",
      "O", "M", " ", "p", "g", "_", "s", "t", "a", "t", "_", "a", "c", "t", "i", "v", "i", "t",
      "y", "\n", " ", " ", " ", " ", " ", " ", " ", " ", "W", "H", "E", "R", "E", " ", "d",
      "a", "t", "n", "a", "m", "e", " ", "=", " ", "'">>
        \o database_name \o
    <<"'", " ", "A", "N", "D", " ", "p", "i", "d", " ", "<", ">", " ", "p", "g", "_", "b", "a",
      "c", "k", "e", "n", "d", "_", "p", "i", "d", "(", ")", ";", "\n", " ", " ", " ", " ",
      " ", " ", " ", " ">>
DropDatabaseQuery(database_name) == <<"D", "R", "O", "P", " ", "D", "A", "T", "A", "B", "A", "S", "E", " ", "I", "F", " ", "E", "X", "I", "S", "T", "S", " ">> \o database_name

\* delete_database, lines 72-106: two statements on the one connection, each
\* through its own cursor, in autocommit mode; drv.execute is the first
\* statement succeeding and drv.finish the second
delete_database(database_name, drv) ==
    LET terminate == ExecuteText(TerminateConnectionsQuery(database_name), <<>>)
        drop == ExecuteText(DropDatabaseQuery(database_name), <<>>)
    IN  db_connection(drv,
            IF ~drv.execute
            THEN Run(<<Event("autocommit"), terminate>>, OpRaised("psycopg.Error"))
            ELSE IF ~drv.finish
            THEN Run(<<Event("autocommit"), terminate, drop>>, OpRaised("psycopg.Error"))
            ELSE Run(<<Event("autocommit"), terminate, drop>>, OpReturned))

\* get_databases, lines 108-128
GetDatabasesQuery ==
    <<"S", "E", "L", "E", "C", "T", " ", "d", "a", "t", "n", "a", "m", "e", " ", "F", "R", "O",
      "M", " ", "p", "g", "_", "d", "a", "t", "a", "b", "a", "s", "e", " ", "W", "H", "E", "R",
      "E", " ", "d", "a", "t", "i", "s", "t", "e", "m", "p", "l", "a", "t", "e", " ", "=", " ",
      "f", "a", "l", "s", "e">>
get_databases(drv) == RunStatement(ExecuteText(GetDatabasesQuery, <<>>), "fetchall", drv)

\* a column type as create_table and alter_table take it: a str, or a tuple
\* of a type and a clause such as a REFERENCES one
StrType(t) == [isStr |-> TRUE, parts |-> <<t>>]
TupleType(t, clause) == [isStr |-> FALSE, parts |-> <<t, clause>>]

\* line 149: f"{col} {dtype}" if isinstance(dtype, str)
\*           else f"{col} {dtype[0]} {dtype[1]}"
ColumnDef(col, dtype) ==
    IF dtype.isStr THEN col \o <<" ">> \o dtype.parts[1]
    ELSE col \o <<" ">> \o dtype.parts[1] \o <<" ">> \o dtype.parts[2]

\* lines 149-150; schema is the sequence of the (col, dtype) items of the dict
SchemaStr(schema) ==
    Join(<<",", " ">>, [i \in 1..Len(schema) |-> ColumnDef(schema[i].col, schema[i].dtype)])

\* create_table, lines 132-161
create_table(table_name, schema, drv) ==
    RunStatement(ExecuteText(<<"C", "R", "E", "A", "T", "E", " ", "T", "A", "B", "L", "E", " ">> \o table_name \o <<" ", "(">>
                                 \o SchemaStr(schema) \o <<")">>, <<>>),
                 "commit", drv)

\* delete_table, lines 163-190
delete_table(table_name, drv) ==
    RunStatement(ExecuteText(<<"D", "R", "O", "P", " ", "T", "A", "B", "L", "E", " ", "I", "F", " ", "E", "X", "I", "S", "T", "S", " ">> \o table_name, <<>>), "commit", drv)

\* an optional argument of alter_table: <<>> is None, a str is <<text>>, a
\* tuple is its two members (for add_column a name and a column type);
\* "if x:" is Given(x), which None and the empty str are not
Given(x) == Len(x) > 0 /\ (Len(x) = 1 => Len(x[1]) > 0)

\* lines 236-264: the alterations list, in the order the code appends to it
Alterations(a) ==
    (IF Given(a.add_column)   \* line 238-244
        THEN <<<<"A", "D", "D", " ", "C", "O", "L", "U", "M", "N", " ">> \o ColumnDef(a.add_column[1], a.add_column[2])>>
        ELSE <<>>)
    \o (IF Given(a.drop_column)   \* line 245-246
        THEN <<<<"D", "R", "O", "P", " ", "C", "O", "L", "U", "M", "N", " ">> \o a.drop_column[1]>>
        ELSE <<>>)
    \o (IF Given(a.rename_column)   \* line 247-248
        THEN <<<<"R", "E", "N", "A", "M", "E", " ", "C", "O", "L", "U", "M", "N", " ">> \o a.rename_column[1] \o <<" ", "T", "O", " ">> \o a.rename_column[2]>>
        ELSE <<>>)
    \o (IF Given(a.alter_column_type)   \* line 249-250
        THEN <<<<"A", "L", "T", "E", "R", " ", "C", "O", "L", "U", "M", "N", " ">> \o a.alter_column_type[1] \o <<" ", "T", "Y", "P", "E", " ">>
                 \o a.alter_column_type[2]>>
        ELSE <<>>)
    \o (IF Given(a.rename_table)   \* line 251-252
        THEN <<<<"R", "E", "N", "A", "M", "E", " ", "T", "O", " ">> \o a.rename_table[1]>>
        ELSE <<>>)
    \o (IF Given(a.add_constraint)   \* line 253-254
        THEN <<<<"A", "D", "D", " ", "C", "O", "N", "S", "T", "R", "A", "I", "N", "T", " ">> \o a.add_constraint[1] \o <<" ">>
                 \o a.add_constraint[2]>>
        ELSE <<>>)
    \o (IF Given(a.drop_constraint)   \* line 255-256
        THEN <<<<"D", "R", "O", "P", " ", "C", "O", "N", "S", "T", "R", "A", "I", "N", "T", " ">> \o a.drop_constraint[1]>>
        ELSE <<>>)
    \o (IF Given(a.set_column_default)   \* line 257-258
        THEN <<<<"A", "L", "T", "E", "R", " ", "C", "O", "L", "U", "M", "N", " ">> \o a.set_column_default[1]
                 \o <<" ", "S", "E", "T", " ", "D", "E", "F", "A", "U", "L", "T", " ">> \o a.set_column_default[2]>>
        ELSE <<>>)
    \o (IF Given(a.drop_column_default)   \* line 259-260
        THEN <<<<"A", "L", "T", "E", "R", " ", "C", "O", "L", "U", "M", "N", " ">> \o a.drop_column_default[1]
                 \o <<" ", "D", "R", "O", "P", " ", "D", "E", "F", "A", "U", "L", "T">>>>
        ELSE <<>>)
    \o (IF Given(a.set_column_not_null)   \* line 261-262
        THEN <<<<"A", "L", "T", "E", "R", " ", "C", "O", "L", "U", "M", "N", " ">> \o a.set_column_not_null[1]
                 \o <<" ", "S", "E", "T", " ", "N", "O", "T", " ", "N", "U", "L", "L">>>>
        ELSE <<>>)
    \o (IF Given(a.drop_column_not_null)   \* line 263-264
        THEN <<<<"A", "L", "T", "E", "R", " ", "C", "O", "L", "U", "M", "N", " ">> \o a.drop_column_not_null[1]
                 \o <<" ", "D", "R", "O", "P", " ", "N", "O", "T", " ", "N", "U", "L", "L">>>>
        ELSE <<>>)

\* alter_table, lines 192-279: without an alteration it raises ValueError
\* before a connection is opened (lines 266-267)
alter_table(table_name, a, drv) ==
    IF Len(Alterations(a)) = 0 THEN Run(<<>>, OpRaised("ValueError"))
    ELSE RunStatement(ExecuteText(<<"A", "L", "T", "E", "R", " ", "T", "A", "B", "L", "E", " ">> \o table_name \o <<" ">>
                                      \o Join(<<",", " ">>, Alterations(a)), <<>>),
                      "commit", drv)

\* get_tables, lines 281-313
GetTablesQuery ==
    <<"\n", " ", " ", " ", " ", " ", " ", " ", " ", "S", "E", "L", "E", "C", "T", " ", "t",
      "a", "b", "l", "e", "_", "n", "a", "m", "e", " ", "\n", " ", " ", " ", " ", " ", " ",
      " ", " ", "F", "R", "O", "M", " ", "i", "n", "f", "o", "r", "m", "a", "t", "i", "o", "n",
      "_", "s", "c", "h", "e", "m", "a", ".", "t", "a", "b", "l", "e", "s", " ", "\n", " ",
      " ", " ", " ", " ", " ", " ", " ", "W", "H", "E", "R", "E", " ", "t", "a", "b", "l", "e",
      "_", "s", "c", "h", "e", "m", "a", " ", "=", " ", "'", "p", "u", "b", "l", "i", "c", "'",
      " ", "A", "N", "D", " ", "t", "a", "b", "l", "e", "_", "t", "y", "p", "e", " ", "=", " ",
      "'", "B", "A", "S", "E", " ", "T", "A", "B", "L", "E", "'", ";", "\n", " ", " ", " ",
      " ", " ", " ", " ", " ">>
get_tables(drv) == RunStatement(ExecuteText(GetTablesQuery, <<>>), "fetchall", drv)

\* get_table_info, lines 316-358: the table name is the one parameter
TableInfoQuery ==
    <<"\n", " ", " ", " ", " ", " ", " ", " ", " ", "S", "E", "L", "E", "C", "T", "\n", " ",
      " ", " ", " ", " ", " ", " ", " ", " ", " ", " ", " ", "c", "o", "l", "u", "m", "n", "_",
      "n", "a", "m", "e", ",", "\n", " ", " ", " ", " ", " ", " ", " ", " ", " ", " ", " ",
      " ", "d", "a", "t", "a", "_", "t", "y", "p", "e", ",", "\n", " ", " ", " ", " ", " ",
      " ", " ", " ", " ", " ", " ", " ", "i", "s", "_", "n", "u", "l", "l", "a", "b", "l", "e",
      ",", "\n", " ", " ", " ", " ", " ", " ", " ", " ", " ", " ", " ", " ", "c", "o", "l",
      "u", "m", "n", "_", "d", "e", "f", "a", "u", "l", "t", "\n", " ", " ", " ", " ", " ",
      " ", " ", " ", "F", "R", "O", "M", "\n", " ", " ", " ", " ", " ", " ", " ", " ", " ",
      " ", " ", " ", "i", "n", "f", "o", "r", "m", "a", "t", "i", "o", "n", "_", "s", "c", "h",
      "e", "m", "a", ".", "c", "o", "l", "u", "m", "n", "s", "\n", " ", " ", " ", " ", " ",
      " ", " ", " ", "W", "H", "E", "R", "E", "\n", " ", " ", " ", " ", " ", " ", " ", " ",
      " ", " ", " ", " ", "t", "a", "b", "l", "e", "_", "n", "a", "m", "e", " ", "=", " ", "%",
      "s", "\n", " ", " ", " ", " ", " ", " ", " ", " ", "O", "R", "D", "E", "R", " ", "B",
      "Y", "\n", " ", " ", " ", " ", " ", " ", " ", " ", " ", " ", " ", " ", "o", "r", "d",
      "i", "n", "a", "l", "_", "p", "o", "s", "i", "t", "i", "o", "n", ";", "\n", " ", " ",
      " ", " ", " ", " ", " ", " ">>
get_table_info(table_name, drv) ==
    RunStatement(ExecuteText(TableInfoQuery, <<StrV(table_name)>>), "fetchall", drv)

\* truncate_table, lines 361-379
truncate_table(table_name, drv) ==
    RunStatement(ExecuteText(<<"T", "R", "U", "N", "C", "A", "T", "E", " ", "T", "A", "B", "L", "E", " ">> \o table_name, <<>>), "commit", drv)

\* execute_query, lines 478-501: the caller's statement and parameters, then
\* fetchall; there is no commit
execute_query(query, params, drv) ==
    RunStatement(ExecuteText(query, params), "fetchall", drv)

\* connections a run leaves open: those it opened and did not close
CountEv(tr, ev) == Cardinality({i \in 1..Len(tr) : tr[i].ev = ev})
LeftOpen(tr) == CountEv(tr, "connect") - CountEv(tr, "close")

\* the tables, records and conditions the record operations are called with
OpTables == {<<"u", "s", "e", "r", "s">>}
OpRecords ==
    Mappings({<<"a">>, <<"b">>},
             {IntV(1), ListV(<<MkElem(<<>>, "int", 1, <<>>), MkElem(<<>>, "int", 2, <<>>)>>)})
OpConditions == Mappings({<<"c">>, <<"i", "d">>}, {IntV(3)})

\* the database names, schemas, alterations and custom queries the database
\* and table operations and execute_query are called with
DbNames == {<<"s", "h", "o", "p">>, <<"l", "o", "g", "s">>}
OpSchemas ==
    {<<>>,
     <<[col |-> <<"i", "d">>, dtype |-> StrType(<<"S", "E", "R", "I", "A", "L", " ", "P", "R", "I", "M", "A", "R", "Y", " ", "K", "E", "Y">>)]>>,
     <<[col |-> <<"i", "d">>, dtype |-> StrType(<<"S", "E", "R", "I", "A", "L", " ", "P", "R", "I", "M", "A", "R", "Y", " ", "K", "E", "Y">>)],
       [col |-> <<"u", "s", "e", "r", "_", "i", "d">>, dtype |-> TupleType(<<"I", "N", "T", "E", "G", "E", "R">>, <<"R", "E", "F", "E", "R", "E", "N", "C", "E", "S", " ", "u", "s", "e", "r", "s", "(", "i", "d", ")">>)]>>}
NoAlteration ==
    [add_column |-> <<>>, drop_column |-> <<>>, rename_column |-> <<>>,
     alter_column_type |-> <<>>, rename_table |-> <<>>, add_constraint |-> <<>>,
     drop_constraint |-> <<>>, set_column_default |-> <<>>, drop_column_default |-> <<>>,
     set_column_not_null |-> <<>>, drop_column_not_null |-> <<>>]
EveryAlteration ==
    [add_column |-> <<<<"e", "m", "a", "i", "l">>, StrType(<<"T", "E", "X", "T">>)>>, drop_column |-> <<<<"a", "g", "e">>>>,
     rename_column |-> <<<<"n", "m">>, <<"n", "a", "m", "e">>>>, alter_column_type |-> <<<<"i", "d">>, <<"B", "I", "G", "I", "N", "T">>>>,
     rename_table |-> <<<<"p", "e", "o", "p", "l", "e">>>>, add_constraint |-> <<<<"u", "q">>, <<"U", "N", "I", "Q", "U", "E", " ", "(", "e", "m", "a", "i", "l", ")">>>>,
     drop_constraint |-> <<<<"c", "k">>>>, set_column_default |-> <<<<"n", "a", "m", "e">>, <<"'", "'">>>>,
     drop_column_default |-> <<<<"i", "d">>>>, set_column_not_null |-> <<<<"n", "a", "m", "e">>>>,
     drop_column_not_null |-> <<<<"e", "m", "a", "i", "l">>>>]
OpAlterations ==
    {NoAlteration,
     [NoAlteration EXCEPT !.drop_column = <<<<>>>>],
     [NoAlteration EXCEPT !.add_column = <<<<"e", "m", "a", "i", "l">>, StrType(<<"V", "A", "R", "C", "H", "A", "R", "(", "1", "0", "0", ")">>)>>,
                          !.drop_column = <<<<"u", "s", "e", "r", "_", "i", "d">>>>],
     [NoAlteration EXCEPT !.add_column =
         <<<<"o", "w", "n", "e", "r">>, TupleType(<<"I", "N", "T", "E", "G", "E", "R">>, <<"R", "E", "F", "E", "R", "E", "N", "C", "E", "S", " ", "u", "s", "e", "r", "s", "(", "i", "d", ")">>)>>],
     EveryAlteration}
OpQueries ==
    {[query |-> <<"S", "E", "L", "E", "C", "T", " ", "1">>, params |-> <<>>],
     [query |-> <<"S", "E", "L", "E", "C", "T", " ", "*", " ", "F", "R", "O", "M", " ", "u", "s", "e", "r", "s", " ", "W", "H", "E", "R", "E", " ", "i", "d", " ", "=", " ", "%", "s">>, params |-> <<IntV(3)>>]}

\* the database the toolkit is configured with when it is constructed
InitialDb == <<"p", "o", "s", "t", "g", "r", "e", "s">>

TkInit ==
    /\ op = [name |-> "", table |-> <<>>, record |-> NoMapping, conditions |-> NoMapping]
    /\ outcome = OpNoCall
    /\ trace = <<>>
    /\ openConns = 0
    /\ db_config = [dbname |-> InitialDb]
    /\ environ = [DB_DATABASE |-> InitialDb]
    /\ lastCreated = InitialDb

InsertRecord ==
    \E table \in OpTables, record \in OpRecords, drv \in DriverChoices :
        LET run == insert_record(table, record, drv)
        IN  /\ op' = [name |-> "insert_record", table |-> table, record |-> record,
                      conditions |-> NoMapping]
            /\ outcome' = run.outcome
            /\ trace' = run.trace
            /\ openConns' = openConns + LeftOpen(run.trace)
            /\ UNCHANGED <<idVars, svVars, bqVars, cfgVars>>

FetchRecords ==
    \E table \in OpTables, conditions \in OpConditions, drv \in DriverChoices :
        LET run == fetch_records(table, conditions, drv)
        IN  /\ op' = [name |-> "fetch_records", table |-> table, record |-> NoMapping,
                      conditions |-> conditions]
            /\ outcome' = run.outcome
            /\ trace' = run.trace
            /\ openConns' = openConns + LeftOpen(run.trace)
            /\ UNCHANGED <<idVars, svVars, bqVars, cfgVars>>

UpdateRecord ==
    \E table \in OpTables, record \in OpRecords, conditions \in OpConditions,
       drv \in DriverChoices :
        LET run == update_record(table, record, conditions, drv)
        IN  /\ op' = [name |-> "update_record", table |-> table, record |-> record,
                      conditions |-> conditions]
            /\ outcome' = run.outcome
            /\ trace' = run.trace
            /\ openConns' = openConns + LeftOpen(run.trace)
            /\ UNCHANGED <<idVars, svVars, bqVars, cfgVars>>

DeleteRecord ==
    \E table \in OpTables, conditions \in OpConditions, drv \in DriverChoices :
        LET run == delete_record(table, conditions, drv)
        IN  /\ op' = [name |-> "delete_record", table |-> table, record |-> NoMapping,
                      conditions |-> conditions]
            /\ outcome' = run.outcome
            /\ trace' = run.trace
            /\ openConns' = openConns + LeftOpen(run.trace)
            /\ UNCHANGED <<idVars, svVars, bqVars, cfgVars>>

\* create_database leaves its name in db_config and os.environ (lines 61-62);
\* lastCreated follows what the server did: it becomes the name when the
\* connection was made and the server accepted the statement
CreateDatabase ==
    \E database_name \in DbNames, drv \in CreateChoices :
        LET run == create_database(database_name, db_config.dbname, environ.DB_DATABASE, drv)
        IN  /\ op' = [name |-> "create_database", database_name |-> database_name]
            /\ outcome' = run.outcome
            /\ trace' = run.trace
            /\ openConns' = openConns + LeftOpen(run.trace)
            /\ db_config' = [db_config EXCEPT !.dbname = run.dbname]
            /\ environ' = [environ EXCEPT !.DB_DATABASE = run.DB_DATABASE]
            /\ lastCreated' = IF drv.connect /\ drv.execute = "ok"
                              THEN database_name ELSE lastCreated
            /\ UNCHANGED <<idVars, svVars, bqVars>>

DeleteDatabase ==
    \E database_name \in DbNames, drv \in DriverChoices :
        LET run == delete_database(database_name, drv)
        IN  /\ op' = [name |-> "delete_database", database_name |-> database_name]
            /\ outcome' = run.outcome
            /\ trace' = run.trace
            /\ openConns' = openConns + LeftOpen(run.trace)
            /\ UNCHANGED <<idVars, svVars, bqVars, cfgVars>>

GetDatabases ==
    \E drv \in DriverChoices :
        LET run == get_databases(drv)
        IN  /\ op' = [name |-> "get_databases"]
            /\ outcome' = run.outcome
            /\ trace' = run.trace
            /\ openConns' = openConns + LeftOpen(run.trace)
            /\ UNCHANGED <<idVars, svVars, bqVars, cfgVars>>

CreateTable ==
    \E table \in OpTables, schema \in OpSchemas, drv \in DriverChoices :
        LET run == create_table(table, schema, drv)
        IN  /\ op' = [name |-> "create_table", table |-> table, schema |-> schema]
            /\ outcome' = run.outcome
            /\ trace' = run.trace
            /\ openConns' = openConns + LeftOpen(run.trace)
            /\ UNCHANGED <<idVars, svVars, bqVars, cfgVars>>

DeleteTable ==
    \E table \in OpTables, drv \in DriverChoices :
        LET run == delete_table(table, drv)
        IN  /\ op' = [name |-> "delete_table", table |-> table]
            /\ outcome' = run.outcome
            /\ trace' = run.trace
            /\ openConns' = openConns + LeftOpen(run.trace)
            /\ UNCHANGED <<idVars, svVars, bqVars, cfgVars>>

AlterTable ==
    \E table \in OpTables, a \in OpAlterations, drv \in DriverChoices :
        LET run == alter_table(table, a, drv)
        IN  /\ op' = [name |-> "alter_table", table |-> table, alterations |-> a]
            /\ outcome' = run.outcome
            /\ trace' = run.trace
            /\ openConns' = openConns + LeftOpen(run.trace)
            /\ UNCHANGED <<idVars, svVars, bqVars, cfgVars>>

GetTables ==
    \E drv \in DriverChoices :
        LET run == get_tables(drv)
        IN  /\ op' = [name |-> "get_tables"]
            /\ outcome' = run.outcome
            /\ trace' = run.trace
            /\ openConns' = openConns + LeftOpen(run.trace)
            /\ UNCHANGED <<idVars, svVars, bqVars, cfgVars>>

GetTableInfo ==
    \E table \in OpTables, drv \in DriverChoices :
        LET run == get_table_info(table, drv)
        IN  /\ op' = [name |-> "get_table_info", table |-> table]
            /\ outcome' = run.outcome
            /\ trace' = run.trace
            /\ openConns' = openConns + LeftOpen(run.trace)
            /\ UNCHANGED <<idVars, svVars, bqVars, cfgVars>>

TruncateTable ==
    \E table \in OpTables, drv \in DriverChoices :
        LET run == truncate_table(table, drv)
        IN  /\ op' = [name |-> "truncate_table", table |-> table]
            /\ outcome' = run.outcome
            /\ trace' = run.trace
            /\ openConns' = openConns + LeftOpen(run.trace)
            /\ UNCHANGED <<idVars, svVars, bqVars, cfgVars>>

ExecuteQuery ==
    \E q \in OpQueries, drv \in DriverChoices :
        LET run == execute_query(q.query, q.params, drv)
        IN  /\ op' = [name |-> "execute_query", query |-> q.query, params |-> q.params]
            /\ outcome' = run.outcome
            /\ trace' = run.trace
            /\ openConns' = openConns + LeftOpen(run.trace)
            /\ UNCHANGED <<idVars, svVars, bqVars, cfgVars>>

-----------------------------------------------------------------------------
(* Specifications *)

\* the toolkit's record operations, in any order
Init == IdIdle /\ SvIdle /\ BqIdle /\ TkInit
Next == InsertRecord \/ FetchRecords \/ UpdateRecord \/ DeleteRecord
Spec == Init /\ [][Next]_vars

\* every operation of the toolkit, in any order
ToolkitNext ==
    \/ CreateDatabase \/ DeleteDatabase \/ GetDatabases
    \/ CreateTable \/ DeleteTable \/ AlterTable \/ GetTables \/ GetTableInfo
    \/ TruncateTable
    \/ InsertRecord \/ FetchRecords \/ UpdateRecord \/ DeleteRecord
    \/ ExecuteQuery
SpecToolkit == Init /\ [][ToolkitNext]_vars

\* calls of sanitize_identifier on given identifiers
IdentInit == IdInit /\ SvIdle /\ BqIdle /\ TkInit
IdentNext == SanitizeIdentifier
SpecIdent == IdentInit /\ [][IdentNext]_vars

\* a call of sanitize_value on a given value
ValueInit == IdIdle /\ SvInit /\ BqIdle /\ TkInit
ValueNext == SanitizeValue
SpecValue == ValueInit /\ [][ValueNext]_vars

\* a call of build_query on given arguments
BuildInit == IdIdle /\ SvIdle /\ BqInit /\ TkInit
BuildNext == BuildQuery
SpecBuild == BuildInit /\ [][BuildNext]_vars

-----------------------------------------------------------------------------
(* Reading a statement back: what the driver and the database see in it *)

RECURSIVE CountPlaceholders(_)
\* The placeholders the driver finds in a statement text.  It scans for "%"
\* and takes it together with the character after it: "%s" is a positional
\* placeholder, "%%" a literal percent sign.  It does not know SQL quoting.
CountPlaceholders(text) ==
    IF Len(text) < 2 THEN 0
    ELSE IF text[1] = "%"
    THEN (IF text[2] = "s" THEN 1 ELSE 0) + CountPlaceholders(SubSeq(text, 3, Len(text)))
    ELSE CountPlaceholders(Tail(text))

RECURSIVE UnDouble(_)
\* the name a quoted identifier's interior stands for: each doubled quote is one quote
UnDouble(s) ==
    IF Len(s) = 0 THEN <<>>
    ELSE IF Len(s) >= 2 /\ s[1] = DQ /\ s[2] = DQ
    THEN <<DQ>> \o UnDouble(SubSeq(s, 3, Len(s)))
    ELSE <<s[1]>> \o UnDouble(Tail(s))

RECURSIVE QuotedEnd(_, _)
\* the position of the quote closing a quoted identifier whose interior
\* starts at j (Len(text) + 1 when it is never closed)
QuotedEnd(text, j) ==
    IF j > Len(text) THEN Len(text) + 1
    ELSE IF text[j] # DQ THEN QuotedEnd(text, j + 1)
    ELSE IF j + 1 <= Len(text) /\ text[j + 1] = DQ THEN QuotedEnd(text, j + 2)
    ELSE j

RECURSIVE Outline(_, _)
\* The statement from position i on as SQL reads it: each quoted identifier
\* is one token carrying its name, every other character a token of its own.
Outline(text, i) ==
    IF i > Len(text) THEN <<>>
    ELSE IF text[i] = DQ
    THEN LET e == QuotedEnd(text, i + 1)
         IN  <<[id |-> TRUE, txt |-> UnDouble(SubSeq(text, i + 1, e - 1))]>>
                 \o Outline(text, e + 1)
    ELSE <<[id |-> FALSE, txt |-> <<text[i]>>]>> \o Outline(text, i + 1)

\* whether the characters of word stand at token i of an outline, outside identifiers
WordAt(toks, i, word) ==
    /\ i >= 1
    /\ i + Len(word) - 1 <= Len(toks)
    /\ \A j \in 1..Len(word) : ~toks[i + j - 1].id /\ toks[i + j - 1].txt = <<word[j]>>

RECURSIVE PlaceholderColumns(_, _, _)
\* the identifier each placeholder outside identifiers follows, left to right
PlaceholderColumns(toks, i, last) ==
    IF i > Len(toks) THEN <<>>
    ELSE IF toks[i].id THEN PlaceholderColumns(toks, i + 1, toks[i].txt)
    ELSE IF WordAt(toks, i, Placeholder)
    THEN <<last>> \o PlaceholderColumns(toks, i + 2, last)
    ELSE PlaceholderColumns(toks, i + 1, last)

\* the names of the quoted identifiers of an outline, left to right
IdentNames(toks) ==
    LET RECURSIVE Names(_)
        Names(i) == IF i > Len(toks) THEN <<>>
                    ELSE IF toks[i].id THEN <<toks[i].txt>> \o Names(i + 1)
                    ELSE Names(i + 1)
    IN  Names(1)

\* whether a mapping argument is absent or empty
AbsentOrEmpty(m) == ~m.present \/ Len(m.items) = 0

\* the i-th value of data followed by conditions, both in insertion order
DataThenConditions(data, conditions) ==
    [i \in 1..(Len(data.items) + Len(conditions.items)) |->
        IF i <= Len(data.items) THEN data.items[i].v
        ELSE conditions.items[i - Len(data.items)].v]

\* the i-th key of data followed by conditions, both in insertion order
KeysDataThenConditions(data, conditions) ==
    [i \in 1..(Len(data.items) + Len(conditions.items)) |->
        IF i <= Len(data.items) THEN data.items[i].k
        ELSE conditions.items[i - Len(data.items)].k]

BqCalled(kind) == bqResult.state # "none" /\ bqArgs.query_type = kind
BqReturnedFor(kind) == bqResult.state = "returned" /\ bqArgs.query_type = kind

-----------------------------------------------------------------------------
(* C1 *)

\* C1: whenever build_query returns, the number of positional placeholders
\* the driver finds in the statement text equals the length of params, for
\* table and column names of arbitrary text.
C1_PlaceholderParity ==
    bqResult.state = "returned" =>
        CountPlaceholders(bqResult.query) = Len(bqResult.params)

-----------------------------------------------------------------------------
(* C2 *)

\* whether mapping m binds key k to value v
HasItem(m, k, v) == \E j \in 1..Len(m.items) : m.items[j].k = k /\ m.items[j].v = v

\* C2: for UPDATE with non-empty data, params are the data values in
\* insertion order followed by the condition values in insertion order, and
\* the i-th placeholder of the statement (SET placeholders, then WHERE
\* placeholders) stands after the column whose value is params[i].
C2_UpdateParamOrder ==
    BqReturnedFor(KUpdate) =>
        LET data == bqArgs.data
            conditions == bqArgs.conditions
            cols == PlaceholderColumns(Outline(bqResult.query, 1), 1, <<>>)
        IN  /\ bqResult.params = DataThenConditions(data, conditions)
            /\ cols = KeysDataThenConditions(data, conditions)
            /\ Len(cols) = Len(bqResult.params)
            /\ \A i \in 1..Len(cols) :
                 IF i <= Len(data.items)
                 THEN HasItem(data, cols[i], bqResult.params[i])
                 ELSE HasItem(conditions, cols[i], bqResult.params[i])

\* the spec's example: data {a:1, b:2}, conditions {c:3} gave params [1, 2, 3]
C2_Witness ==
    /\ BqReturnedFor(KUpdate)
    /\ bqArgs.data = Mapping(<<Item(<<"a">>, IntV(1)), Item(<<"b">>, IntV(2))>>)
    /\ bqArgs.conditions = Mapping(<<Item(<<"c">>, IntV(3))>>)
    /\ bqResult.params = <<IntV(1), IntV(2), IntV(3)>>

-----------------------------------------------------------------------------
(* C3 *)

\* C3: for INSERT with non-empty data, params[i] is sanitize_value of the
\* value of the i-th column of the statement's column list, so a list or
\* mapping value appears in params as its JSON text.
C3_InsertParamsSanitized ==
    BqReturnedFor(KInsert) =>
        LET data == bqArgs.data
            names == IdentNames(Outline(bqResult.query, 1))
        IN  /\ Len(bqResult.params) = Len(data.items)
            /\ Len(names) = Len(data.items) + 1
            /\ \A i \in 1..Len(data.items) :
                 /\ names[i + 1] = data.items[i].k
                 /\ Returned(bqResult.params[i]) = sanitize_value(data.items[i].v)

-----------------------------------------------------------------------------
(* C4 *)

\* the statement the claim describes, with a space on both sides of "="
SelectTextAsClaimed(table, conditions) ==
    <<"S", "E", "L", "E", "C", "T", " ", "*", " ", "F", "R", "O", "M", " ">> \o <<DQ>> \o Replace(table, DQ, <<DQ, DQ>>) \o <<DQ>>
        \o (IF AbsentOrEmpty(conditions) THEN <<>>
            ELSE <<" ", "W", "H", "E", "R", "E", " ">> \o
                 Join(<<" ", "A", "N", "D", " ">>,
                      [i \in 1..Len(conditions.items) |->
                          <<DQ>> \o Replace(conditions.items[i].k, DQ, <<DQ, DQ>>) \o <<DQ>>
                              \o <<" ", "=", " ">> \o Placeholder]))

\* the statement the code builds: no space between the quoted key and "="
SelectTextAsBuilt(table, conditions) ==
    <<"S", "E", "L", "E", "C", "T", " ", "*", " ", "F", "R", "O", "M", " ">> \o <<DQ>> \o Replace(table, DQ, <<DQ, DQ>>) \o <<DQ>>
        \o (IF AbsentOrEmpty(conditions) THEN <<>>
            ELSE <<" ", "W", "H", "E", "R", "E", " ">> \o
                 Join(<<" ", "A", "N", "D", " ">>,
                      [i \in 1..Len(conditions.items) |->
                          <<DQ>> \o Replace(conditions.items[i].k, DQ, <<DQ, DQ>>) \o <<DQ>>
                              \o <<"=", " ">> \o Placeholder]))

\* C4 as stated: for SELECT the statement is SELECT * FROM <table>, followed
\* when conditions is non-empty by WHERE and one "<key> = <placeholder>" term
\* per condition joined by AND, and params are the condition values in order.
C4_SelectTextAsClaimed ==
    BqCalled(KSelect) =>
        /\ bqResult.state = "returned"
        /\ bqResult.query = SelectTextAsClaimed(bqArgs.table, bqArgs.conditions)
        /\ bqResult.params = [i \in 1..Len(bqArgs.conditions.items) |->
                                bqArgs.conditions.items[i].v]

\* C4 amended: the same, each term being "<key>= %s": the quoted key is
\* followed directly by "=", and the placeholder is the driver's %s.
C4_SelectText ==
    BqCalled(KSelect) =>
        /\ bqResult.state = "returned"
        /\ bqResult.query = SelectTextAsBuilt(bqArgs.table, bqArgs.conditions)
        /\ bqResult.params = [i \in 1..Len(bqArgs.conditions.items) |->
                                bqArgs.conditions.items[i].v]
        /\ AbsentOrEmpty(bqArgs.conditions) => bqResult.params = <<>>

\* the spec's scenario: table "users", conditions {id: 5}
C4_Witness ==
    /\ BqReturnedFor(KSelect)
    /\ bqArgs.table = <<"u", "s", "e", "r", "s">>
    /\ bqArgs.conditions = Mapping(<<Item(<<"i", "d">>, IntV(5))>>)
    /\ bqResult.query = <<"S", "E", "L", "E", "C", "T", " ", "*", " ", "F", "R", "O", "M", " ", "\"", "u", "s", "e", "r", "s", "\"", " ", "W", "H", "E", "R", "E", " ", "\"", "i", "d", "\"", "=", " ", "%", "s">>
    /\ bqResult.params = <<IntV(5)>>

-----------------------------------------------------------------------------
(* C5 *)

\* whether an outline holds a WHERE keyword followed by a condition term
HasWhereTerm(toks) ==
    \E i \in 1..Len(toks) :
        /\ WordAt(toks, i, <<" ", "W", "H", "E", "R", "E", " ">>)
        /\ i + 7 <= Len(toks)
        /\ toks[i + 7].id
        /\ WordAt(toks, i + 8, <<"=", " ">> \o Placeholder)

\* C5: DELETE with conditions None or {} fails with a validation error and
\* returns no statement; whenever DELETE returns, the statement has a WHERE
\* clause with at least one condition term.
C5_DeleteNeedsConditions ==
    BqCalled(KDelete) =>
        /\ AbsentOrEmpty(bqArgs.conditions) =>
             /\ bqResult.state = "raised"
             /\ bqResult.exc = "ValueError"
             /\ bqResult.query = <<>>
        /\ bqResult.state = "returned" =>
             /\ ~AbsentOrEmpty(bqArgs.conditions)
             /\ HasWhereTerm(Outline(bqResult.query, 1))

\* DELETE was refused for conditions {}
C5_Witness ==
    /\ BqCalled(KDelete)
    /\ bqArgs.conditions = Mapping(<<>>)
    /\ bqResult.state = "raised"

-----------------------------------------------------------------------------
(* C7 *)

\* whether word occurs in text as a run of consecutive characters
Occurs(word, text) ==
    \E i \in 0..(Len(text) - Len(word)) : SubSeq(text, i + 1, i + Len(word)) = word

\* C7: a query type outside SELECT, INSERT, UPDATE, DELETE fails with a
\* validation error whose message names the given type, and no statement or
\* part of one is returned.
C7_UnrecognizedKind ==
    (bqResult.state # "none"
        /\ bqArgs.query_type \notin {KSelect, KInsert, KUpdate, KDelete}) =>
        /\ bqResult.state = "raised"
        /\ bqResult.exc = "ValueError"
        /\ Occurs(<<SQ>> \o bqArgs.query_type \o <<SQ>>, bqResult.msg)
        /\ bqResult.query = <<>>
        /\ bqResult.params = <<>>

\* the spec's scenario: kind "PATCH" was refused
C7_Witness ==
    /\ bqResult.state = "raised"
    /\ bqArgs.query_type = <<"P", "A", "T", "C", "H">>
    /\ bqResult.msg = <<"Q", "u", "e", "r", "y", " ", "t", "y", "p", "e", " ", "'", "P", "A", "T", "C", "H", "'", " ", "n", "o", "t", " ", "r", "e", "c", "o", "g", "n", "i", "z", "e", "d", ".">>

-----------------------------------------------------------------------------
(* C6 *)

\* C6: insert_record and update_record with an empty or absent data mapping,
\* and delete_record with an empty or absent condition mapping, end in an
\* error, with no connection opened and no statement handed to the executor.
C6_ValidatedBeforeIO ==
    ( \/ op.name \in {"insert_record", "update_record"} /\ AbsentOrEmpty(op.record)
      \/ op.name = "delete_record" /\ AbsentOrEmpty(op.conditions) ) =>
        /\ outcome.state = "raised"
        /\ \A i \in 1..Len(trace) : trace[i].ev \notin {"connect", "execute"}

-----------------------------------------------------------------------------
(* C8 *)

\* whether every maximal run of double quotes in s has even length
RECURSIVE QuoteRunsEven(_, _)
QuoteRunsEven(s, run) ==
    IF Len(s) = 0 THEN run % 2 = 0
    ELSE IF Head(s) = DQ THEN QuoteRunsEven(Tail(s), run + 1)
    ELSE run % 2 = 0 /\ QuoteRunsEven(Tail(s), 0)

RECURSIVE QuotesDoubled(_, _)
\* whether interior is raw with every double quote written twice
QuotesDoubled(raw, interior) ==
    IF Len(raw) = 0 THEN Len(interior) = 0
    ELSE IF raw[Len(raw)] = DQ
    THEN /\ Len(interior) >= 2
         /\ interior[Len(interior)] = DQ
         /\ interior[Len(interior) - 1] = DQ
         /\ QuotesDoubled(SubSeq(raw, 1, Len(raw) - 1),
                          SubSeq(interior, 1, Len(interior) - 2))
    ELSE /\ Len(interior) >= 1
         /\ interior[Len(interior)] = raw[Len(raw)]
         /\ QuotesDoubled(SubSeq(raw, 1, Len(raw) - 1),
                          SubSeq(interior, 1, Len(interior) - 1))

Interior(out) == SubSeq(out, 2, Len(out) - 1)

\* C8: for every raw identifier, the empty one and those made of quotes
\* included, sanitize_identifier returns a text that starts and ends with a
\* double quote and whose interior is raw with every double quote doubled,
\* so the interior has no run of double quotes of odd length.
C8_IdentifierQuoted ==
    \A i \in 1..Len(idResults) :
        LET out == idResults[i]
        IN  /\ Len(out) >= 2
            /\ out[1] = DQ
            /\ out[Len(out)] = DQ
            /\ QuotesDoubled(idArgs[i], Interior(out))
            /\ QuoteRunsEven(Interior(out), 0)

\* the spec's example a"b gave "a""b", and the empty identifier and one
\* made of a quote alone were sanitized too
C8_Witness ==
    /\ Len(idResults) = 2
    /\ idArgs[1] = <<"a", "\"", "b">>
    /\ idResults[1] = <<"\"", "a", "\"", "\"", "b", "\"">>
    /\ idArgs[2] \in {<<>>, <<DQ>>}

-----------------------------------------------------------------------------
(* C9 *)

\* C9: sanitize_identifier is injective, and un-doubling the quotes of the
\* interior of its output gives back the raw identifier.
C9_IdentifierInjective ==
    /\ \A i \in 1..Len(idResults) : UnDouble(Interior(idResults[i])) = idArgs[i]
    /\ (Len(idResults) = 2 /\ idArgs[1] # idArgs[2]) => idResults[1] # idResults[2]

\* two identifiers that differ only in a quote were both sanitized
C9_Witness ==
    /\ Len(idResults) = 2
    /\ idArgs[1] = <<"a", "\"", "b">>
    /\ idArgs[2] = <<"a", "b">>
    /\ idResults[1] # idResults[2]

-----------------------------------------------------------------------------
(* C10 *)

\* the JSON text of a sequence or mapping whose elements all have one
JsonText(v) ==
    IF v.t = "dict"
    THEN <<"{">> \o Join(<<",", " ">>, SeqMap(JsonItem, v.elems)) \o <<"}">>
    ELSE <<"[">> \o Join(<<",", " ">>, SeqMap(JsonElem, v.elems)) \o <<"]">>

HasJsonText(v) == \A i \in 1..Len(v.elems) : JsonEncodable(v.elems[i].t)

\* C10: every composite value (list, tuple or mapping) is returned as its
\* JSON text, every int, float, str, bool or None unchanged, every other
\* value as its str() text.  Composites holding an element with no JSON
\* encoding are left out here: they have no JSON text to return.
C10_ValueClassified ==
    svResult.state # "none" =>
        /\ (value.t \in {"list", "tuple", "dict"} /\ HasJsonText(value)) =>
             svResult = Returned(StrV(JsonText(value)))
        /\ value.t \in {"int", "float", "str", "bool", "none"} =>
             svResult = Returned(value)
        /\ value.t = "other" => svResult = Returned(StrV(value.txt))

-----------------------------------------------------------------------------
(* C11 *)

\* C11: sanitize_value raises no error for any input; a list or mapping
\* holding an element that has no JSON encoding yields a returned value too.
C11_ValueNeverRaises ==
    svResult.state # "none" => svResult.state = "returned"

-----------------------------------------------------------------------------
(* C12 *)

\* the calls of an operation happened between one connect and one close
Scoped(tr) ==
    /\ CountEv(tr, "connect") = 1
    /\ CountEv(tr, "close") = 1
    /\ tr[1].ev = "connect"
    /\ tr[Len(tr)].ev = "close"

\* the operation made no call on a connection
Unconnected(tr) == \A i \in 1..Len(tr) : tr[i].ev = "connect_failed"

\* C12: the connection an operation acquired is closed when the operation
\* ends, however it ends: every call made on the connection lies between
\* its one connect and its one close, which is the last event, and after any
\* sequence of operations no connection is open.
C12_ConnectionsReleased ==
    /\ openConns = 0
    /\ Scoped(trace) \/ Unconnected(trace)

\* an operation ended with an exception that is not the driver's, raised
\* inside the connection scope
C12_Witness ==
    /\ outcome.state = "raised"
    /\ outcome.exc \in {"TypeError", "AttributeError"}
    /\ Len(trace) > 0
    /\ Scoped(trace)

-----------------------------------------------------------------------------
(* C13 *)

\* the operations that change the database or the server, and those that read
Mutating(name) ==
    name \in {"create_database", "delete_database", "create_table", "delete_table",
              "alter_table", "truncate_table", "insert_record", "update_record",
              "delete_record"}
Reading(name) ==
    name \in {"get_databases", "get_tables", "get_table_info", "fetch_records",
              "execute_query"}

\* the driver calls of a run, by name and in order
Calls(tr) == [i \in 1..Len(tr) |-> tr[i].ev]

IsPrefix(s, t) == Len(s) <= Len(t) /\ s = SubSeq(t, 1, Len(s))

\* C13 as stated: an operation hands at most one statement to the driver, and
\* one that returns has connected, executed its one statement, committed if
\* it is mutating or fetched if it reads, and closed, in that order; a
\* connection put in autocommit mode before the statement counts as
\* committing it.
C13_OneStatementPerCall ==
    /\ CountEv(trace, "execute") <= 1
    /\ outcome.state = "returned" =>
           IF Mutating(op.name)
           THEN Calls(trace) \in {<<"connect", "execute", "commit", "close">>,
                                  <<"connect", "autocommit", "execute", "close">>}
           ELSE Calls(trace) = <<"connect", "execute", "fetchall", "close">>

\* the calls an operation makes on its connection when nothing fails
CallsOf(name) ==
    IF name = "delete_database" THEN <<"autocommit", "execute", "execute">>
    ELSE IF name = "create_database" THEN <<"autocommit", "execute">>
    ELSE IF Mutating(name) THEN <<"execute", "commit">>
    ELSE <<"execute", "fetchall">>

\* C13 amended: an operation acquires at most one connection and releases it
\* last; on it, it makes the calls of CallsOf in that order, all of them when
\* it returns and a prefix of them when it fails: one statement, then commit
\* (mutating) or fetchall (reading); create_database sets autocommit and
\* executes its statement with no commit call; delete_database sets
\* autocommit and executes two statements, the termination of the sessions of
\* the database and then DROP DATABASE IF EXISTS.
C13_StatementsPerCall ==
    /\ Scoped(trace) \/ Unconnected(trace)
    /\ Scoped(trace) =>
           /\ IsPrefix(SubSeq(Calls(trace), 2, Len(trace) - 1), CallsOf(op.name))
           /\ outcome.state = "returned" =>
                  Calls(trace) = <<"connect">> \o CallsOf(op.name) \o <<"close">>
    /\ outcome.state = "returned" => Scoped(trace)
    /\ outcome.state = "returned" /\ op.name = "delete_database" =>
           /\ trace[3].query = TerminateConnectionsQuery(op.database_name)
           /\ trace[4].query = DropDatabaseQuery(op.database_name)

\* delete_database returned, having executed its two statements
C13_Witness ==
    /\ op.name = "delete_database"
    /\ outcome.state = "returned"
    /\ CountEv(trace, "execute") = 2

-----------------------------------------------------------------------------
(* C14 *)

\* the kind of statement a record operation asks build_query for
KindOf(name) ==
    IF name = "fetch_records" THEN KSelect
    ELSE IF name = "update_record" THEN KUpdate
    ELSE KDelete

\* C14: what fetch_records, update_record and delete_record hand to the
\* driver is what build_query returned for their arguments: the first
\* argument of execute is the statement text, not the pair, and the second
\* is the params, element by element and in order.
C14_ExecutorGetsBuiltPair ==
    op.name \in {"fetch_records", "update_record", "delete_record"} =>
        \A i \in 1..Len(trace) :
            trace[i].ev = "execute" =>
                LET built == build_query(op.table, op.record, op.conditions, KindOf(op.name))
                IN  /\ trace[i].isText
                    /\ trace[i].query = built.query
                    /\ trace[i].params = built.params

-----------------------------------------------------------------------------
(* C15 *)

\* the configuration names the database
ConfiguredAs(cfg, env, name) == cfg.dbname = name /\ env.DB_DATABASE = name

\* C15: the configured database (db_config['dbname'] and DB_DATABASE) is the
\* name of the last creation the server accepted, or the initial one; a
\* create_database that raises leaves the configuration as it was, one that
\* returns has set it to its name or, the database existing, left it as it
\* was, and no other operation changes it.
C15_ConfiguredDatabase ==
    /\ ConfiguredAs(db_config, environ, lastCreated)
    /\ [][/\ ConfiguredAs(db_config', environ', lastCreated')
          /\ op'.name # "create_database" => UNCHANGED <<db_config, environ>>
          /\ outcome'.state = "raised" => UNCHANGED <<db_config, environ>>
          /\ op'.name = "create_database" /\ outcome'.state = "returned" =>
                 \/ ConfiguredAs(db_config', environ', op'.database_name)
                 \/ UNCHANGED <<db_config, environ>>]_vars

\* a creation the server refused, after one it accepted: the statement was
\* executed and the configuration still names the earlier database
C15_Witness ==
    /\ op.name = "create_database"
    /\ CountEv(trace, "execute") = 1
    /\ db_config.dbname # op.database_name
    /\ db_config.dbname # InitialDb
    /\ environ.DB_DATABASE = db_config.dbname

====
